---- MODULE Spec2Model ----
(***************************************************************************)
(* Model of src/main.py: the /create_slide handler of the slide generator. *)
(*                                                                         *)
(* The handler is sequential: it normalises the request, creates the       *)
(* cover slide, adds one content slide per page of every section and saves *)
(* the deck under a random name in the public directory.  The template     *)
(* (python-pptx's default presentation) and the file system are the        *)
(* environment: the template is drawn once, when the process starts, and   *)
(* serialization may succeed or fail.                                      *)
(*                                                                         *)
(* Two specifications:                                                     *)
(*   Spec      the server handling requests one after another;             *)
(*   PureSpec  the pure functions (chunk, the font-size choice and the     *)
(*             paragraph builder) applied to arbitrary lists and page      *)
(*             sizes.                                                      *)
(***************************************************************************)
EXTENDS Integers, Sequences, FiniteSets

\* ------------------------------------------------------------------ bounds

\* Largest number of bullet strings in one request (sections and flat list).
MaxBullets == 7

\* PureSpec: longest list given to chunk, and largest page size.
MaxLst == 7
MaxPage == 8

\* Section names a request may use as keys of `slides`.
SectionNames == {"A", "B"}

\* Names uuid4 may draw for an output file.
FileNames == {"f1", "f2"}

\* Letters of the strings given to chunk in PureSpec.
Letters == {"a", "b"}

\* --------------------------------------------------------- program constants

\* A knob turned up to seven bullets per slide.
MAX_PER_SLIDE_seven == 5 + 2

\* main.py:65-68, the tuning knobs.
MAX_PER_SLIDE == 5
BASE_FONT_PT == 24
MID_FONT_PT == 20
SMALL_FONT_PT == 18

\* --------------------------------------------------------------- variables

VARIABLES
    template,     \* prs.slide_layouts of Presentation(): a sequence of layouts
    files,        \* PUBLIC_DIR: file name -> what the file holds
    pc,           \* position of the handler
    req,          \* the SlideReq being handled
    slides_dict,  \* the normalised mapping, an ordered sequence of sections
    prs,          \* prs.slides: the deck under construction
    sec,          \* index of the section the outer loop is at
    parts,        \* list(chunk(bullets, MAX_PER_SLIDE)) of that section
    idx,          \* enumerate(parts, start=1) position of the inner loop
    status,       \* HTTP status of the response, 0 while there is none
    err,          \* the exception that ended the request, "" if none
    fname,        \* the file name in the response's file_url
    filesBefore,  \* PUBLIC_DIR as it was when the request arrived
    p_pc,         \* PureSpec: position
    p_lst,        \* PureSpec: the list given to chunk
    p_n,          \* PureSpec: the page size given to chunk
    p_parts,      \* PureSpec: list(chunk(p_lst, p_n))
    p_again,      \* PureSpec: list(chunk(page, p_n)) of every page
    p_paras       \* PureSpec: the paragraphs built from every page

handlerVars == <<template, files, pc, req, slides_dict, prs, sec, parts, idx,
                 status, err, fname, filesBefore>>
pureVars == <<p_pc, p_lst, p_n, p_parts, p_again, p_paras>>
vars == <<handlerVars, pureVars>>

\* ------------------------------------------------------------ pure functions

Min(a, b) == IF a < b THEN a ELSE b

\* A slice that takes its end index too.
Slice_inclusive(lst, lo, hi) == SubSeq(lst, lo + 1, Min(hi + 1, Len(lst)))

\* Python's lst[lo:hi] for 0 <= lo <= hi: the end is clamped to len(lst).
Slice(lst, lo, hi) == SubSeq(lst, lo + 1, Min(hi, Len(lst)))

\* The generator's loop: for i in range(0, len(lst), n): yield lst[i:i+n].
RECURSIVE chunkFrom(_, _, _)
chunkFrom(lst, n, i) ==
    IF i >= Len(lst) THEN <<>>
    ELSE <<Slice(lst, i, i + n)>> \o chunkFrom(lst, n, i + n)

\* A loop over the full pages only: range(0, len(lst) - n + 1, n).
chunk_fullPagesOnly(lst, n) ==
    chunkFrom(SubSeq(lst, 1, (Len(lst) \div n) * n), n, 0)

chunk(lst, n) == chunkFrom(lst, n, 0)

\* Thresholds compared with >= instead of >.
FontPt_atLeast(n) ==
    IF n >= 6 THEN SMALL_FONT_PT
    ELSE IF n >= 4 THEN MID_FONT_PT
    ELSE BASE_FONT_PT

\* main.py:105-111: the font size of a page of n bullets.
FontPt(n) ==
    IF n > 6 THEN SMALL_FONT_PT
    ELSE IF n > 4 THEN MID_FONT_PT
    ELSE BASE_FONT_PT

\* Every bullet written into paragraphs[0]: only the last one is left.
Paragraphs_firstOnly(part) ==
    IF part = <<>> THEN <<>>
    ELSE <<[text |-> part[Len(part)], level |-> 0, size |-> FontPt(Len(part))]>>

\* main.py:113-119: one paragraph per bullet, level 0, every run at font_pt.
Paragraphs(part) ==
    [i \in 1..Len(part) |->
        [text |-> part[i], level |-> 0, size |-> FontPt(Len(part))]]

\* enumerate(parts) without start=1: pages numbered from 0.
SlideTitle_fromZero(subindustry, i, total) ==
    IF total = 1 THEN <<subindustry>> ELSE <<subindustry, i - 1, total>>

\* main.py:88: the f-string "<name> (<idx>/<total>)" is the tuple of its parts.
SlideTitle(subindustry, i, total) ==
    IF total = 1 THEN <<subindustry>> ELSE <<subindustry, i, total>>

\* ------------------------------------------------------- template and slides

\* A placeholder of a layout, as the handler sees it: whether it is the title
\* placeholder (slide.shapes.title) and whether it has a text frame.
TitlePh == [is_title |-> TRUE, has_text_frame |-> TRUE]
BodyPh == [is_title |-> FALSE, has_text_frame |-> TRUE]
PicturePh == [is_title |-> FALSE, has_text_frame |-> FALSE]

\* Layouts a template may hold: title and content, title and picture, and a
\* layout with no title whose text placeholder comes second.
Layouts == {<<TitlePh, BodyPh>>, <<TitlePh, PicturePh>>, <<PicturePh, BodyPh>>}

\* prs.slide_layouts: the handler guards for fewer than one and fewer than two.
Templates == {<<>>} \cup {<<a>> : a \in Layouts}
                \cup {<<a, b>> : a \in Layouts, b \in Layouts}

\* slide.shapes.title is None when the layout has no title placeholder.
HasTitle(layout) == \E i \in 1..Len(layout) : layout[i].is_title

\* main.py:91-96: the first placeholder that has a text frame and is not the
\* title; 0 stands for body_ph = None.
FindBody(layout) ==
    LET hits == {i \in 1..Len(layout) :
                    layout[i].has_text_frame /\ ~layout[i].is_title}
    IN IF hits = {} THEN 0 ELSE CHOOSE i \in hits : \A j \in hits : i <= j

\* main.py:72: slide_layouts[0] if there is one, else slide_layouts[1].
\* main.py:84: slide_layouts[1] if there are two, else slide_layouts[0].
\* Both as Python indices; an index past the end raises IndexError.
CoverLayoutIndex(tpl) == IF Len(tpl) > 0 THEN 0 ELSE 1
ContentLayoutIndex(tpl) == IF Len(tpl) > 1 THEN 1 ELSE 0

\* ------------------------------------------------------------------ requests

\* Optional[...] fields of SlideReq (main.py:44-47).
None == [some |-> FALSE, val |-> <<>>]
Some(x) == [some |-> TRUE, val |-> x]

\* The l bullet strings of one list; <<tag, i>> is its i-th string.
BulletList(tag, l) == [i \in 1..l |-> <<tag, i>>]

Section(name, l) == [name |-> name, bullets |-> BulletList(name, l)]

\* Dict[str, List[str]] in insertion order: sections with distinct names.
SlideMaps ==
    {<<>>}
    \cup {<<Section(a, l)>> : a \in SectionNames, l \in 0..MaxBullets}
    \cup {<<Section(a, l), Section(b, m)>> :
            <<a, b, l, m>> \in
              {q \in SectionNames \X SectionNames \X (0..MaxBullets) \X (0..MaxBullets) :
                  q[1] # q[2] /\ q[3] + q[4] <= MaxBullets}}

FlatLists == {BulletList("bullets", l) : l \in 0..MaxBullets}

RECURSIVE CountBullets(_)
CountBullets(m) ==
    IF m = <<>> THEN 0 ELSE Len(Head(m).bullets) + CountBullets(Tail(m))

ReqSize(r) == CountBullets(r.slides.val) + Len(r.bullets.val)

Requests ==
    {r \in [title : {"T"},
            slides : {None} \cup {Some(m) : m \in SlideMaps},
            bullets : {None} \cup {Some(f) : f \in FlatLists}] :
        ReqSize(r) <= MaxBullets}

\* The value of req while no request is being handled.
NoRequest == [title |-> "", slides |-> None, bullets |-> None]

\* main.py:56-62: the slides dict, or that no input shape was supplied.
Normalize(r) ==
    IF ~r.slides.some /\ r.bullets.some
    THEN [ok |-> TRUE, dict |-> <<[name |-> "General", bullets |-> r.bullets.val]>>]
    ELSE IF r.slides.some
    THEN [ok |-> TRUE, dict |-> r.slides.val]
    ELSE [ok |-> FALSE, dict |-> <<>>]

\* main.py:130-132: every exception raised inside the try block, the
\* HTTPException of line 62 included, is answered with status 500.
ExceptStatus(e) == 500

\* --------------------------------------------------------------- file system

EmptyDir == [f \in {} |-> "deck"]

\* Writing a file creates it, or replaces what a file of that name held.
WriteFile(dir, name, content) ==
    [f \in DOMAIN dir \cup {name} |-> IF f = name THEN content ELSE dir[f]]

\* uuid.uuid4().hex: a name no file of the directory has.
FreshNames(dir) == FileNames \ DOMAIN dir

\* ------------------------------------------------------------------- actions

Init ==
    /\ template \in Templates
    /\ files = EmptyDir
    /\ pc = "idle"
    /\ req = NoRequest
    /\ slides_dict = <<>>
    /\ prs = <<>>
    /\ sec = 0
    /\ parts = <<>>
    /\ idx = 0
    /\ status = 0
    /\ err = ""
    /\ fname = ""
    /\ filesBefore = EmptyDir
    /\ p_pc = "off"
    /\ p_lst = <<>>
    /\ p_n = 1
    /\ p_parts = <<>>
    /\ p_again = <<>>
    /\ p_paras = <<>>

\* The except clause: the request ends with an error response.
Raise(e) ==
    /\ pc' = "done"
    /\ status' = ExceptStatus(e)
    /\ err' = e

\* FastAPI hands a parsed SlideReq to create_slide.  Requests are taken while
\* FileNames still has a name no file of the directory bears.
Receive(r) ==
    /\ pc = "idle"
    /\ FreshNames(files) # {}
    /\ pc' = "normalize"
    /\ req' = r
    /\ filesBefore' = files
    /\ UNCHANGED <<template, files, slides_dict, prs, sec, parts, idx, status,
                   err, fname, pureVars>>

\* main.py:56-62.
NormalizeInput ==
    /\ pc = "normalize"
    /\ LET nz == Normalize(req)
       IN IF nz.ok
          THEN /\ slides_dict' = nz.dict
               /\ pc' = "cover"
               /\ UNCHANGED <<status, err>>
          ELSE /\ Raise("HTTPException422")
               /\ UNCHANGED slides_dict
    /\ UNCHANGED <<template, files, req, prs, sec, parts, idx, fname,
                   filesBefore, pureVars>>

\* The cover's title set outside the inner try: a missing title raises.
AddCover_strict ==
    /\ pc = "cover"
    /\ LET ci == CoverLayoutIndex(template)
       IN IF ci >= Len(template)
          THEN /\ Raise("IndexError")
               /\ UNCHANGED <<prs, sec>>
          ELSE IF ~HasTitle(template[ci + 1])
          THEN /\ Raise("AttributeError")
               /\ UNCHANGED <<prs, sec>>
          ELSE /\ prs' = <<[layout |-> ci, title |-> <<req.title>>,
                            body |-> 0, paras |-> <<>>]>>
               /\ sec' = 1
               /\ pc' = "section"
               /\ UNCHANGED <<status, err>>
    /\ UNCHANGED <<template, files, req, slides_dict, parts, idx, fname,
                   filesBefore, pureVars>>

\* main.py:70-77: the cover slide; a cover without a title placeholder keeps
\* no title text (the AttributeError is swallowed).
AddCover ==
    /\ pc = "cover"
    /\ LET ci == CoverLayoutIndex(template)
       IN IF ci >= Len(template)
          THEN /\ Raise("IndexError")
               /\ UNCHANGED <<prs, sec>>
          ELSE /\ prs' = <<[layout |-> ci,
                            title |-> IF HasTitle(template[ci + 1])
                                      THEN <<req.title>> ELSE <<>>,
                            body |-> 0,
                            paras |-> <<>>]>>
               /\ sec' = 1
               /\ pc' = "section"
               /\ UNCHANGED <<status, err>>
    /\ UNCHANGED <<template, files, req, slides_dict, parts, idx, fname,
                   filesBefore, pureVars>>

\* main.py:79-81: the next section of the mapping is paginated; a section
\* with no page adds no slide.
BeginSection ==
    /\ pc = "section"
    /\ sec <= Len(slides_dict)
    /\ LET ps == chunk(slides_dict[sec].bullets, MAX_PER_SLIDE)
       IN /\ parts' = ps
          /\ IF ps = <<>>
             THEN sec' = sec + 1 /\ pc' = "section" /\ idx' = 0
             ELSE sec' = sec /\ pc' = "page" /\ idx' = 1
    /\ UNCHANGED <<template, files, req, slides_dict, prs, status, err, fname,
                   filesBefore, pureVars>>

\* main.py:83-119: one content slide for page idx of the section.
AddContentSlide ==
    /\ pc = "page"
    /\ LET li == ContentLayoutIndex(template)
           layout == template[li + 1]
           body == FindBody(layout)
           slide == [layout |-> li,
                     title |-> SlideTitle(slides_dict[sec].name, idx, Len(parts)),
                     body |-> body,
                     paras |-> IF body = 0 THEN <<>> ELSE Paragraphs(parts[idx])]
       IN IF ~HasTitle(layout)
          THEN /\ Raise("AttributeError")
               /\ UNCHANGED <<prs, sec, idx>>
          ELSE /\ prs' = Append(prs, slide)
               /\ IF idx < Len(parts)
                  THEN idx' = idx + 1 /\ sec' = sec /\ pc' = "page"
                  ELSE idx' = 0 /\ sec' = sec + 1 /\ pc' = "section"
               /\ UNCHANGED <<status, err>>
    /\ UNCHANGED <<template, files, req, slides_dict, parts, fname,
                   filesBefore, pureVars>>

\* main.py:121-128: the deck is written under a fresh name and its URL returned.
SaveDeck ==
    /\ pc = "section"
    /\ sec > Len(slides_dict)
    /\ \E name \in FreshNames(files) :
         /\ files' = WriteFile(files, name, "deck")
         /\ fname' = name
    /\ pc' = "done"
    /\ status' = 200
    /\ UNCHANGED <<template, req, slides_dict, prs, sec, parts, idx, err,
                   filesBefore, pureVars>>

\* main.py:123, 130-132: prs.save raises (the directory is not writable, the
\* disk is full).  The zip file is opened before it is filled, so a failed
\* save may or may not leave a file; the handler removes nothing.
SaveFails ==
    /\ pc = "section"
    /\ sec > Len(slides_dict)
    /\ \E name \in FreshNames(files), left \in BOOLEAN :
         files' = IF left THEN WriteFile(files, name, "partial") ELSE files
    /\ Raise("OSError")
    /\ UNCHANGED <<template, req, slides_dict, prs, sec, parts, idx, fname,
                   filesBefore, pureVars>>

\* The response has been sent: the handler's locals are gone, the files stay.
Return ==
    /\ pc = "done"
    /\ pc' = "idle"
    /\ req' = NoRequest
    /\ slides_dict' = <<>>
    /\ prs' = <<>>
    /\ sec' = 0
    /\ parts' = <<>>
    /\ idx' = 0
    /\ status' = 0
    /\ err' = ""
    /\ fname' = ""
    /\ filesBefore' = files
    /\ UNCHANGED <<template, files, pureVars>>

Next ==
    \/ \E r \in Requests : Receive(r)
    \/ Return
    \/ NormalizeInput
    \/ AddCover
    \/ BeginSection
    \/ AddContentSlide
    \/ SaveDeck
    \/ SaveFails

Spec == Init /\ [][Next]_vars

\* ------------------------------------------- the pure functions on their own

\* Every list of at most MaxLst strings.
Lists == UNION {[1..k -> Letters] : k \in 0..MaxLst}

PureInit ==
    /\ p_pc = "input"
    /\ p_lst \in Lists
    /\ p_n \in 1..MaxPage
    /\ p_parts = <<>>
    /\ p_again = <<>>
    /\ p_paras = <<>>
    /\ template = <<>>
    /\ files = EmptyDir
    /\ pc = "off"
    /\ req = NoRequest
    /\ slides_dict = <<>>
    /\ prs = <<>>
    /\ sec = 0
    /\ parts = <<>>
    /\ idx = 0
    /\ status = 0
    /\ err = ""
    /\ fname = ""
    /\ filesBefore = EmptyDir

\* parts = list(chunk(lst, n)), as at main.py:80.
Paginate ==
    /\ p_pc = "input"
    /\ p_parts' = chunk(p_lst, p_n)
    /\ p_pc' = "paged"
    /\ UNCHANGED <<p_lst, p_n, p_again, p_paras, handlerVars>>

\* chunk applied again, with the same page size, to every page it produced.
Repaginate ==
    /\ p_pc = "paged"
    /\ p_again' = [i \in 1..Len(p_parts) |-> chunk(p_parts[i], p_n)]
    /\ p_pc' = "repaged"
    /\ UNCHANGED <<p_lst, p_n, p_parts, p_paras, handlerVars>>

\* The paragraphs of every page, as at main.py:105-119.
BuildParagraphs ==
    /\ p_pc = "repaged"
    /\ p_paras' = [i \in 1..Len(p_parts) |-> Paragraphs(p_parts[i])]
    /\ p_pc' = "built"
    /\ UNCHANGED <<p_lst, p_n, p_parts, p_again, handlerVars>>

PureNext ==
    \/ Paginate
    \/ Repaginate
    \/ BuildParagraphs

PureSpec == PureInit /\ [][PureNext]_vars

\* -------------------------------------------------- vocabulary of the claims

\* ceil(a / b) for b >= 1.
CeilDiv(a, b) == (a + b - 1) \div b

\* 1 for a condition that holds, 0 for one that does not.
Indicator(b) == IF b THEN 1 ELSE 0

\* The sequences of a sequence, concatenated in order.
RECURSIVE Concat(_)
Concat(ss) == IF ss = <<>> THEN <<>> ELSE Head(ss) \o Concat(Tail(ss))

\* The bullet lines of a slide, and of a run of slides, in order.
SlideTexts(slide) == [j \in 1..Len(slide.paras) |-> slide.paras[j].text]
DeckTexts(slides) == Concat([k \in 1..Len(slides) |-> SlideTexts(slides[k])])

\* The slides after the cover.
ContentSlides == IF prs = <<>> THEN <<>> ELSE Tail(prs)

\* The layouts the handler picks, where the template has them.
HasCoverLayout == Len(template) > 0
CoverLayout == template[1]
ContentLayout == template[IF Len(template) > 1 THEN 2 ELSE 1]

\* The two input shapes of the request being handled.
BothSupplied == req.slides.some /\ req.bullets.some
NeitherSupplied == ~req.slides.some /\ ~req.bullets.some

\* The sections a request stands for: its mapping, or its flat list as the
\* one section "General".
SectionsOf(r) ==
    IF r.slides.some THEN r.slides.val
    ELSE <<[name |-> "General", bullets |-> r.bullets.val]>>

\* The number of pages of all sections together, at 5 bullets a page.
RECURSIVE SumPages(_)
SumPages(d) ==
    IF d = <<>> THEN 0 ELSE CeilDiv(Len(Head(d).bullets), 5) + SumPages(Tail(d))

\* The titles of a mapping's content slides: for each section in order, its
\* N pages titled by the plain name when N = 1 and by (name, i, N) otherwise.
RECURSIVE ExpectedTitles(_)
ExpectedTitles(d) ==
    IF d = <<>> THEN <<>>
    ELSE LET name == Head(d).name
             N == CeilDiv(Len(Head(d).bullets), MAX_PER_SLIDE)
         IN [i \in 1..N |-> IF N = 1 THEN <<name>> ELSE <<name, i, N>>]
              \o ExpectedTitles(Tail(d))

\* The slides are grouped by section, in the sections' order: each section
\* owns the next ceil(len/5) slides, all titled with its name, and their
\* bullet lines concatenated are the section's bullet list.
RECURSIVE GroupedBySection(_, _)
GroupedBySection(d, slides) ==
    IF d = <<>> THEN slides = <<>>
    ELSE LET k == CeilDiv(Len(Head(d).bullets), 5)
         IN /\ Len(slides) >= k
            /\ \A j \in 1..k : slides[j].title[1] = Head(d).name
            /\ DeckTexts(SubSeq(slides, 1, k)) = Head(d).bullets
            /\ GroupedBySection(Tail(d), SubSeq(slides, k + 1, Len(slides)))

\* ------------------------------------------------------------------- claims

\* C1: for every list of length L and page size P >= 1, chunk returns exactly
\* ceil(L/P) pages (none for L = 0), every page is a non-empty contiguous
\* slice of at most P bullets, and the pages concatenated in order are the
\* original list.
C1_ChunkPartitions ==
    p_pc # "input" =>
        /\ Len(p_parts) = CeilDiv(Len(p_lst), p_n)
        /\ \A i \in 1..Len(p_parts) :
             /\ Len(p_parts[i]) \in 1..p_n
             /\ \E k \in 0..Len(p_lst) :
                  p_parts[i] = SubSeq(p_lst, k + 1, k + Len(p_parts[i]))
        /\ Concat(p_parts) = p_lst

\* C1's case: seven bullets cut into pages of three, the last page short.
C1_Witness ==
    /\ p_pc = "paged"
    /\ Len(p_lst) = 7
    /\ p_n = 3
    /\ Len(p_parts) = 3
    /\ Len(p_parts[3]) = 1

\* C2: a request with both `slides` and `bullets`, or with neither, is
\* answered with status 422 and creates no file; a file is created only
\* when exactly one of the two is supplied.
C2_BothOrNeitherRejected ==
    pc = "done" =>
        /\ (BothSupplied \/ NeitherSupplied) =>
               status = 422 /\ files = filesBefore
        /\ files # filesBefore => ~BothSupplied /\ ~NeitherSupplied

\* C3: if a content slide has no text placeholder other than its title, the
\* request ends with status 500 and no deck is saved; every deck returned
\* with status 200 holds every bullet of every section.
C3_NoBodyAborts ==
    pc = "done" =>
        /\ (\E k \in 1..Len(ContentSlides) : ContentSlides[k].body = 0) =>
               status = 500 /\ files = filesBefore
        /\ status = 200 =>
               DeckTexts(ContentSlides)
                 = Concat([k \in 1..Len(slides_dict) |-> slides_dict[k].bullets])

\* C4: an error response leaves the set of files as it was; a 200 response
\* adds exactly one file and rewrites or removes none.
C4_FilesFrame ==
    pc = "done" =>
        /\ status \in {422, 500} => files = filesBefore
        /\ status = 200 =>
             /\ DOMAIN filesBefore \subseteq DOMAIN files
             /\ Cardinality(DOMAIN files \ DOMAIN filesBefore) = 1
             /\ \A f \in DOMAIN filesBefore : files[f] = filesBefore[f]

\* C5: the content slides of a section with N >= 1 pages are titled with the
\* plain section name when N = 1 and with (name, i, N) when N > 1, i running
\* 1..N in page order, N being the section's own page count.  The titles of
\* the slides built so far are the first titles of that list; a deck that
\* is returned has them all.
C5_PageTitles ==
    LET got == [k \in 1..Len(ContentSlides) |-> ContentSlides[k].title]
        want == ExpectedTitles(slides_dict)
    IN /\ Len(got) <= Len(want)
       /\ got = SubSeq(want, 1, Len(got))
       /\ status = 200 => Len(got) = Len(want)

\* C5's case: a returned deck whose first section has two pages and whose
\* second section has one, so that the deck has three content slides.
C5_Witness ==
    /\ status = 200
    /\ Len(prs) = 4
    /\ prs[2].title = <<"A", 1, 2>>
    /\ prs[3].title = <<"A", 2, 2>>
    /\ prs[4].title = <<"B">>

C7_DeckShape ==
    (/\ pc = "done"
     /\ status = 200
     /\ HasTitle(CoverLayout)
     /\ HasTitle(ContentLayout)
     /\ FindBody(ContentLayout) # 0) =>
        LET d == SectionsOf(req)
        IN /\ Len(prs) = 1 + SumPages(d)
           /\ prs[1].title = <<req.title>>
           /\ prs[1].paras = <<>>
           /\ GroupedBySection(d, Tail(prs))
           /\ (~req.slides.some /\ Len(req.bullets.val) = 3) =>
                  Len(prs) = 2 /\ prs[2].title = <<"General">>
           /\ (Len(d) = 1 /\ Len(d[1].bullets) = 7) =>
                  /\ Len(prs) = 3
                  /\ Len(prs[2].paras) = 5
                  /\ Len(prs[3].paras) = 2

\* C7's case: one section of seven bullets, returned as a cover and two
\* content slides.
C7_Witness ==
    /\ pc = "done"
    /\ status = 200
    /\ req.slides.some
    /\ Len(req.slides.val) = 1
    /\ Len(req.slides.val[1].bullets) = 7
    /\ Len(prs) = 3
    /\ Len(prs[3].paras) = 2

\* C8: chunk applied with the same page size to a page it produced returns
\* exactly one page, equal to that page.
C8_ChunkIdempotent ==
    p_pc \in {"repaged", "built"} =>
        \A i \in 1..Len(p_parts) : p_again[i] = <<p_parts[i]>>

\* C8's case: a list cut into several pages, each page cut again.
C8_Witness ==
    /\ p_pc = "repaged"
    /\ Len(p_parts) >= 2
    /\ Len(p_parts[1]) = p_n
    /\ p_again[1] = <<p_parts[1]>>

\* C9, as claimed: when the cover's layout has no title region the request
\* still returns 200 with a saved deck (serialization failures set aside).
C9_CoverNeverFails ==
    (/\ pc = "done"
     /\ HasCoverLayout
     /\ ~HasTitle(CoverLayout)
     /\ ~NeitherSupplied
     /\ err # "OSError") =>
        /\ status = 200
        /\ fname \in DOMAIN files

\* C9, amended: for a request that supplies an input shape, a cover layout
\* with no title region leaves the cover slide without title text and the
\* handler goes on; the request returns 200 with a saved deck unless a
\* content slide is built from a layout with no title region or the save
\* fails, and then it returns 500.
C9_CoverTitleSkipped ==
    (HasCoverLayout /\ ~HasTitle(CoverLayout)) =>
        /\ prs # <<>> => prs[1].title = <<>> /\ prs[1].layout = 0
        /\ (pc = "done" /\ ~NeitherSupplied) =>
             LET contentFails ==
                     /\ ~HasTitle(ContentLayout)
                     /\ SumPages(SectionsOf(req)) > 0
             IN IF contentFails
                THEN status = 500 /\ err = "AttributeError"
                ELSE IF err = "OSError"
                THEN status = 500
                ELSE /\ status = 200
                     /\ fname \in DOMAIN files
                     /\ files[fname] = "deck"
                     /\ Len(prs) = 1 + SumPages(SectionsOf(req))

\* C9's case: a cover without a title region, content slides built from a
\* second layout, and the deck returned.
C9_Witness ==
    /\ pc = "done"
    /\ status = 200
    /\ ~HasTitle(CoverLayout)
    /\ prs[1].title = <<>>
    /\ Len(prs) > 1

====
